---- MODULE Spec2Model ----
(***************************************************************************)
(* Model of mindbot's long-term memory subsystem: the ConsolidationService *)
(* (Story file, NarrativeLock, pending-episode log) as a set of agent       *)
(* processes whose handlers suspend at every awaited filesystem or LLM      *)
(* call.  Each action is one such atomic stretch of a handler.              *)
(***************************************************************************)
EXTENDS Integers, Sequences, FiniteSets, TLC

(* ---------------------------------------------------------------------- *)
(* Bounds of the model and program constants                              *)
(* ---------------------------------------------------------------------- *)

\* const NARRATIVE_LOCK_MAX_AGE_MS = 120_000
NARRATIVE_LOCK_MAX_AGE_MS == 120000

\* const MAX_STORY_WORDS = 4000
MAX_STORY_WORDS == 4000

\* Granularity of the wall clock, in milliseconds, and how far it runs.
TickMs == 120000
MaxTicks == 2

\* Messages in the session transcripts, and the token estimate of one message.
MaxMsgs == 2
MaxTok == 2

\* The safeTokenLimit and tokenThreshold the handlers are called with.
SafeTokenLimit == 2
TokenThreshold == 2

\* Entries the pending log may hold.
MaxLog == 2

\* Chunks one completion stream may emit.
MaxChunks == 3

\* private maxEchoFilterSize = 25
maxEchoFilterSize == 25

\* if (totalSelected >= 10) break
MaxTotalSelected == 10

\* Memories the graph holds, and getFlashback calls in a row.
MaxMem == 26
MaxCalls == 2

\* The oldest timestamp of the live context, when the caller passes one.
ContextStart == 5

\* The texts truncateRepetitive is given: their characters and their length.
Chars == {"a", "b", " "}
MaxText == 10

\* Agent processes sharing the Story file and the lock file.
Procs == {"p1", "p2"}

(* ---------------------------------------------------------------------- *)
(* Texts, messages and the heartbeat predicate                            *)
(* ---------------------------------------------------------------------- *)

\* A text is described by what the heartbeat tests look at: whether it includes
\* "Read HEARTBEAT.md", includes "HEARTBEAT_OK", includes "reply HEARTBEAT_OK",
\* and whether it trims to "HEARTBEAT_OK".
PlainText == [readHb |-> FALSE, hasOk |-> FALSE, reply |-> FALSE, isOk |-> FALSE]
HbPrompt == [readHb |-> TRUE, hasOk |-> TRUE, reply |-> TRUE, isOk |-> FALSE]
HbPromptOther == [readHb |-> TRUE, hasOk |-> TRUE, reply |-> FALSE, isOk |-> FALSE]
HbResponse == [readHb |-> FALSE, hasOk |-> TRUE, reply |-> FALSE, isOk |-> TRUE]
MentionsOk == [readHb |-> FALSE, hasOk |-> TRUE, reply |-> FALSE, isOk |-> FALSE]
Texts == {PlainText, HbPrompt, HbPromptOther, HbResponse, MentionsOk}

PromptOnly(text) == text.readHb /\ text.hasOk

isHeartbeatMessage(text) ==
    LET isPrompt == text.readHb /\ text.hasOk
        isResponse == text.isOk
    IN  isPrompt \/ isResponse

\* The texts the session transcripts of this model carry.
ChatTexts == {PlainText, HbPrompt}

Max(a, b) == IF a >= b THEN a ELSE b

RECURSIVE SumTok(_)
SumTok(s) == IF s = <<>> THEN 0 ELSE Head(s).tok + SumTok(Tail(s))

RECURSIVE MaxTs(_)
MaxTs(s) == IF s = <<>> THEN 0 ELSE Max(Head(s).ts, MaxTs(Tail(s)))

SeqSet(s) == {s[i] : i \in 1..Len(s)}

\* Array.prototype.sort by timestamp (a total order on the records breaks ties).
Before(a, b) ==
    \/ a.ts < b.ts
    \/ a.ts = b.ts /\ a.tok < b.tok
    \/ a.ts = b.ts /\ a.tok = b.tok /\ a.text.readHb /\ ~b.text.readHb

RECURSIVE SortByTs(_)
SortByTs(S) ==
    IF S = {} THEN <<>>
    ELSE LET m == CHOOSE x \in S : \A y \in S \ {x} : Before(x, y)
         IN  <<m>> \o SortByTs(S \ {m})

(* ---------------------------------------------------------------------- *)
(* File contents                                                          *)
(* ---------------------------------------------------------------------- *)

\* A Story text is a sequence of pieces: LAST_PROCESSED comments and prose.
Hdr(t) == [k |-> "H", ts |-> t, txt |-> ""]
Txt(x) == [k |-> "T", ts |-> 0, txt |-> x]

IsHdr(tok) == tok.k = "H"
IsTxt(tok) == tok.k = "T"

NoFile == [ex |-> FALSE, c |-> <<>>, partial |-> FALSE, wr |-> {}, mtime |-> 0]

\* currentStory.match(/<!-- LAST_PROCESSED: (.*?) -->/): the first comment.
HasHeader(c) == \E i \in 1..Len(c) : IsHdr(c[i])
FirstHeader(c) ==
    LET i == CHOOSE j \in 1..Len(c) : IsHdr(c[j]) /\ \A l \in 1..(j - 1) : ~IsHdr(c[l])
    IN  c[i].ts

\* newStory.replace(/<!-- LAST_PROCESSED:.*?-->\n*/g, "")
StripHeaders(c) == SelectSeq(c, IsTxt)

\* What readFile returns: the bytes present (nothing yet of a file being written).
ReadContent(f) == IF f.ex /\ ~f.partial THEN f.c ELSE <<>>

(* ---------------------------------------------------------------------- *)
(* State                                                                  *)
(* ---------------------------------------------------------------------- *)

VARIABLES
    now,        \* Date.now(), in milliseconds
    lock,       \* the file NARRATIVE_LOCK_FILE
    story,      \* the file storyPath
    tmp,        \* the file storyPath + ".tmp"
    sessions,   \* the type "message" entries of the session transcripts
    plog,       \* the file pending-episodes.log
    pstatus,    \* the file .pending-consolidation-status
    ps,         \* per process: the handler it runs and that handler's locals
    narrated,   \* history: messages of batches whose Story write succeeded
    collected,  \* history: messages a sync run collected for narration
    rec,        \* whether this specification records the two histories
    graph,      \* the episodes added to the graph (GraphService.addEpisode)
    bootflag,   \* whether memory/.graphiti-bootstrap-done exists
    llm,        \* the new stories the model behind agent.complete can write
    cg,         \* a complete() call of the subconscious agent: its locals
    recentlyRecalled, \* SubconsciousService.recentlyRecalled, in insertion order
    fb,         \* the getFlashback call in progress or last returned
    tr,         \* a text and what truncateRepetitive made of it
    recall,     \* what the graph searches of a getFlashback call may bring back
    rel         \* a date's age and what getRelativeTimeDescription made of it

vars == <<now, lock, story, tmp, sessions, plog, pstatus, ps, narrated, collected, rec, graph, bootflag, llm, cg,
          recentlyRecalled, fb, tr, recall, rel>>

\* The state of the SubconsciousService and of its time labels.
mind == <<recentlyRecalled, fb, tr, recall, rel>>

\* Everything but the complete() call.
files == <<now, lock, story, tmp, sessions, plog, pstatus, ps, narrated, collected, rec, graph, bootflag, llm>>

NoLock == [ex |-> FALSE, pid |-> "", mtime |-> 0]
NoLog == [ex |-> FALSE, entries |-> <<>>]
NoStatus == [ex |-> FALSE, messages |-> 0, tokens |-> 0]

\* No turn of the runner in progress.
NoTurn ==
    [on |-> FALSE, prompt |-> PlainText, hb |-> FALSE,
     sessionFile |-> {}, stored |-> FALSE, searched |-> FALSE]

Idle ==
    [op |-> "idle", pc |-> "idle", ret |-> "", skip |-> FALSE, ok |-> FALSE,
     stale |-> FALSE,
     turn |-> NoTurn, resp |-> "", cresp |-> "",
     latestTs |-> 0, anchor |-> 0, arr |-> TRUE,
     todo |-> <<>>, batch |-> <<>>, nbatch |-> <<>>,
     cur |-> <<>>, out |-> <<>>, new |-> <<>>,
     st |-> [messages |-> 0, tokens |-> 0]]

\* No complete() call in progress.
NoCall ==
    [pc |-> "idle", provider |-> "", which |-> "", n |-> 0,
     collected |-> <<>>, streamError |-> FALSE,
     primaryError |-> FALSE, primaryText |-> <<>>,
     fallbacks |-> 0, threw |-> FALSE, fullText |-> <<>>]

InitFiles ==
    /\ cg = NoCall
    /\ now = TickMs
    /\ lock = NoLock
    /\ story = NoFile
    /\ tmp = NoFile
    /\ sessions = {}
    /\ plog = NoLog
    /\ pstatus = NoStatus
    /\ ps = [p \in Procs |-> Idle]
    /\ narrated = {}
    /\ collected = {}
    /\ graph = {}
    /\ bootflag = FALSE

\* The stories of a model that keeps its answers short, and of one that may
\* also answer with exactly MAX_STORY_WORDS words or with more.
ShortStories == {<<Txt("a")>>}
AnyStories == ShortStories \cup {<<Txt("full")>>, <<Txt("long")>>}

\* A timestamp that is absent, and one that new Date() cannot parse.
Missing == 0
Unparseable == -1

\* oldestContextTimestamp not given.
NoHorizon == 0

\* No getFlashback call made yet.
NoFlashback ==
    [pc |-> "idle", calls |-> 0,
     input |-> [results |-> <<>>, horizon |-> NoHorizon],
     echo0 |-> <<>>, afterHorizon |-> <<>>, afterEcho |-> <<>>,
     accepted |-> <<>>, body |-> <<>>, block |-> "",
     emitted |-> {}, prev |-> {}, shown |-> {}]

\* No date described yet.
NoRel == [n |-> 0, diffSec |-> 0, hr |-> 0, label |-> [form |-> "", n |-> -1, part |-> ""]]

\* No text truncated yet.
NoTrunc == [n |-> 0, text |-> <<>>, once |-> <<>>, twice |-> <<>>]

\* A SubconsciousService just constructed.
InitMind ==
    /\ recentlyRecalled = <<>>
    /\ fb = NoFlashback
    /\ tr = NoTrunc
    /\ recall = {}
    /\ rel = NoRel

\* Several agent processes at once; the histories are not recorded.
Init == InitFiles /\ InitMind /\ rec = FALSE /\ llm = ShortStories

\* One agent process, one handler at a time; the histories are recorded.
InitSeq == InitFiles /\ InitMind /\ rec = TRUE /\ llm = ShortStories

\* One agent process whose model may write long stories.
InitWords == InitFiles /\ InitMind /\ rec = TRUE /\ llm = AnyStories

Set(p, q) == ps' = [ps EXCEPT ![p] = q]

(* ---------------------------------------------------------------------- *)
(* The environment: the clock and the conversation                        *)
(* ---------------------------------------------------------------------- *)

Tick ==
    /\ now < TickMs * MaxTicks
    /\ now' = now + TickMs
    /\ UNCHANGED <<lock, story, tmp, sessions, plog, pstatus, ps, narrated, collected, rec, graph, bootflag, llm, cg, mind>>

\* A turn appends a message entry, stamped with the current time, to a transcript.
Chat ==
    /\ Cardinality(sessions) < MaxMsgs
    /\ \A m \in sessions : m.ts # now
    /\ \E text \in ChatTexts, k \in 1..MaxTok :
          /\ isHeartbeatMessage(text) => k = 1
          /\ sessions' = sessions \cup {[ts |-> now, tok |-> k, text |-> text]}
    /\ UNCHANGED <<now, lock, story, tmp, plog, pstatus, ps, narrated, collected, rec, graph, bootflag, llm, cg, mind>>

(* ---------------------------------------------------------------------- *)
(* updateNarrativeStory                                                   *)
(* ---------------------------------------------------------------------- *)

\* What agent.complete may answer to a story prompt: nothing (an error or an
\* empty text), a new story, the current story unchanged, or a new story that
\* repeats the LAST_PROCESSED comment of the current one.
LlmOutputs(cur) ==
    {<<>>, cur} \cup llm
        \cup (IF HasHeader(cur) THEN {<<Hdr(FirstHeader(cur)), Txt("a")>>} ELSE {})

\* The value of response?.text: a string, or something that is no string (the
\* stream consumer hands a chunk's content on as it is).
TextResponse(text) == [kind |-> "text", text |-> text]
NonString == [kind |-> "nonstring", text |-> <<>>]

Responses(cur) == {TextResponse(o) : o \in LlmOutputs(cur)} \cup {NonString}

\* The answers to the compression prompt for the story newStory: nothing, the
\* story as long as it was, a story the model writes, or no string.
CompressResponses(newStory) ==
    {TextResponse(o) : o \in {<<>>, newStory} \cup llm} \cup {NonString}

RespKind(r) ==
    IF r.kind = "nonstring" THEN "nonstring"
    ELSE IF r.text = <<>> THEN "empty" ELSE "text"

\* newStory.split(/\s+/).length: the empty string splits into one piece, a
\* LAST_PROCESSED comment into four; of the prose texts "full" has exactly
\* MAX_STORY_WORDS words, "long" one more, and every other one a single word.
WordsOf(piece) ==
    IF IsHdr(piece) THEN 4
    ELSE IF piece.txt = "long" THEN MAX_STORY_WORDS + 1
    ELSE IF piece.txt = "full" THEN MAX_STORY_WORDS
    ELSE 1

RECURSIVE SumWords(_)
SumWords(c) == IF c = <<>> THEN 0 ELSE WordsOf(Head(c)) + SumWords(Tail(c))

WordCount(c) == IF c = <<>> THEN 1 ELSE SumWords(c)

NeverTooLong(c) == FALSE

\* if (wordCount > MAX_STORY_WORDS)
TooLong(c) == WordCount(c) > MAX_STORY_WORDS

AlwaysPersists(newStory, currentStory) == TRUE

\* if (newStory && newStory !== currentStory)
PersistsStory(newStory, currentStory) == newStory # <<>> /\ newStory # currentStory

\* let maxTimestamp = anchorTimestamp || 0; raised by the batch's timestamps
\* when oldMessages is an array.
MaxTimestamp(q) ==
    IF q.arr THEN Max(q.anchor, MaxTs(q.batch)) ELSE q.anchor

\* The text written: the header is added only for a positive maxTimestamp.
ContentToWrite(newStory, maxTimestamp) ==
    IF maxTimestamp > 0
    THEN <<Hdr(maxTimestamp)>> \o StripHeaders(newStory)
    ELSE newStory

\* The longest prefix of the messages a batch takes before the flush.
RECURSIVE TakeLen(_, _)
TakeLen(msgs, n) ==
    IF n < Len(msgs) /\ SumTok(SubSeq(msgs, 1, n)) + msgs[n + 1].tok <= SafeTokenLimit
    THEN TakeLen(msgs, n + 1)
    ELSE n

Last(s) == s[Len(s)]

Rest(s, n) == SubSeq(s, n + 1, Len(s))

\* The locals on entry to updateNarrativeStory(oldMessages, currentStory, ..., anchorTimestamp),
\* suspended at agent.complete; ret is where the caller goes on with the result.
CallUpdate(q, oldMessages, isArray, anchorTimestamp, ret) ==
    [q EXCEPT !.pc = "u_llm", !.batch = oldMessages, !.arr = isArray,
              !.anchor = anchorTimestamp, !.ret = ret, !.ok = FALSE]

\* syncGlobalNarrative's batch loop, run up to its next updateNarrativeStory call:
\* a batch is flushed when the next message would exceed safeTokenLimit, and is
\* anchored at its last message.
GlobalLoop(q) ==
    LET n == TakeLen(q.todo, 1)
        b == SubSeq(q.todo, 1, n)
        rest == Rest(q.todo, n)
    IN  CallUpdate([q EXCEPT !.todo = rest], b, TRUE, Last(b).ts,
                   IF rest = <<>> THEN "g_final" ELSE "g_loop")

\* syncStoryWithSession's batch loop: the final batch is anchored at latestTs.
SessionLoop(q) ==
    LET n == TakeLen(q.todo, 1)
        b == SubSeq(q.todo, 1, n)
        rest == Rest(q.todo, n)
    IN  CallUpdate([q EXCEPT !.todo = rest], b, TRUE,
                   IF rest = <<>> THEN q.latestTs ELSE Last(b).ts,
                   IF rest = <<>> THEN "s_final" ELSE "s_loop")

\* bootstrapFromLegacyMemory's loop over the files, run up to its next
\* updateNarrativeStory call.  The flush test has no "batch is not empty"
\* guard, and latestTimestamp is moved after the test.
RECURSIVE BootLoop(_)
BootLoop(q) ==
    IF q.todo = <<>>
    THEN IF q.nbatch = <<>>
         THEN Idle
         ELSE CallUpdate([q EXCEPT !.nbatch = <<>>], q.nbatch, FALSE, q.latestTs, "b_final")
    ELSE LET f == Head(q.todo)
             latest == IF f.ts > 0 THEN f.ts ELSE q.latestTs
         IN  IF SumTok(q.nbatch) + f.tok > SafeTokenLimit
             THEN CallUpdate([q EXCEPT !.todo = Tail(q.todo), !.nbatch = <<f>>,
                                       !.latestTs = latest],
                             q.nbatch, FALSE, q.latestTs, "b_loop")
             ELSE BootLoop([q EXCEPT !.todo = Tail(q.todo),
                                     !.nbatch = q.nbatch \o <<f>>,
                                     !.latestTs = latest])

\* The caller's locals once updateNarrativeStory has returned the story r.
AfterUpdate(q, r) ==
    CASE q.ret = "g_loop" -> GlobalLoop([q EXCEPT !.cur = r])
      [] q.ret = "g_final" -> [q EXCEPT !.pc = "g_finally"]
      [] q.ret = "s_loop" -> SessionLoop([q EXCEPT !.cur = r])
      [] q.ret = "s_final" -> Idle
      [] q.ret = "b_loop" -> BootLoop([q EXCEPT !.cur = r])
      [] q.ret = "b_final" -> Idle
      [] OTHER -> [q EXCEPT !.pc = "r_status"]

\* fs.writeFile(tmpPath, ...) opens the file, truncating it ...
OpenForWrite(f, p) ==
    [ex |-> TRUE, c |-> <<>>, partial |-> TRUE,
     wr |-> (IF f.ex THEN f.wr ELSE {}) \cup {p}, mtime |-> now]

\* ... and then writes the text into the file it opened, wherever that file is by now.
Written(f, p, text) ==
    [f EXCEPT !.c = text, !.wr = f.wr \ {p}, !.partial = (f.wr \ {p} # {}), !.mtime = now]

\* await agent.complete(prompt), the decision to persist, and the opening of
\* the tmp file.  (The answer is local to the process until the file is opened,
\* so the two awaits are taken as one step.)
\* return currentStory, from the end of the function or through its catch.
ReturnsCurrent(p, q) ==
    /\ Set(p, AfterUpdate(q, q.cur))
    /\ tmp' = tmp

\* The persist test on newStory and, when it passes, the opening of the tmp file.
Decide(p, q, newStory) ==
    IF PersistsStory(newStory, q.cur)
    THEN /\ Set(p, [q EXCEPT !.pc = "u_write", !.out = newStory,
                             !.new = ContentToWrite(newStory, MaxTimestamp(q))])
         /\ tmp' = OpenForWrite(tmp, p)
    ELSE ReturnsCurrent(p, q)

ULlm(p) ==
    /\ ps[p].pc = "u_llm"
    /\ \E r \in Responses(ps[p].cur) :
          LET q == [ps[p] EXCEPT !.resp = IF rec THEN RespKind(r) ELSE "", !.cresp = ""]
          IN  IF r.kind = "nonstring"
              THEN ReturnsCurrent(p, q)
              ELSE IF TooLong(r.text)
                   THEN /\ Set(p, [q EXCEPT !.pc = "u_compress", !.out = r.text])
                        /\ tmp' = tmp
                   ELSE Decide(p, q, r.text)
    /\ UNCHANGED <<now, lock, story, sessions, plog, pstatus, narrated, collected, rec, graph, bootflag, llm, cg, mind>>

\* await agent.complete(compressionPrompt); compressedStory is the answer's
\* text or, without one, newStory; its split throws on what is no string.
UCompress(p) ==
    /\ ps[p].pc = "u_compress"
    /\ \E r \in CompressResponses(ps[p].out) :
          LET q == [ps[p] EXCEPT !.cresp = IF rec THEN RespKind(r) ELSE ""]
              compressedStory == IF r.text # <<>> THEN r.text ELSE ps[p].out
          IN  IF r.kind = "nonstring"
              THEN ReturnsCurrent(p, q)
              ELSE Decide(p, q, compressedStory)
    /\ UNCHANGED <<now, lock, story, sessions, plog, pstatus, narrated, collected, rec, graph, bootflag, llm, cg, mind>>

UWrite(p) ==
    /\ ps[p].pc = "u_write"
    /\ IF tmp.ex /\ p \in tmp.wr
       THEN tmp' = Written(tmp, p, ps[p].new) /\ story' = story
       ELSE IF story.ex /\ p \in story.wr
            THEN story' = Written(story, p, ps[p].new) /\ tmp' = tmp
            ELSE UNCHANGED <<story, tmp>>
    /\ Set(p, [ps[p] EXCEPT !.pc = "u_rename"])
    /\ UNCHANGED <<now, lock, sessions, plog, pstatus, narrated, collected, rec, graph, bootflag, llm, cg, mind>>

\* fs.rename(tmpPath, storyPath); a missing tmp file throws into the catch,
\* which returns currentStory.
URename(p) ==
    /\ ps[p].pc = "u_rename"
    /\ IF tmp.ex
       THEN /\ story' = tmp
            /\ tmp' = NoFile
            /\ narrated' = narrated \cup (IF rec /\ ps[p].arr THEN SeqSet(ps[p].batch) ELSE {})
            /\ Set(p, AfterUpdate([ps[p] EXCEPT !.ok = TRUE], ps[p].out))
       ELSE /\ UNCHANGED <<story, tmp, narrated>>
            /\ Set(p, AfterUpdate(ps[p], ps[p].cur))
    /\ UNCHANGED <<now, lock, sessions, plog, pstatus, collected, rec, graph, bootflag, llm, cg, mind>>

(* ---------------------------------------------------------------------- *)
(* syncGlobalNarrative                                                    *)
(* ---------------------------------------------------------------------- *)

\* fs.stat(NARRATIVE_LOCK_FILE): a young lock returns, from inside the try
\* whose finally unlinks the lock file.
LockExists == lock.ex

LockIsYoung == lock.ex /\ now - lock.mtime < NARRATIVE_LOCK_MAX_AGE_MS

GStat(p) ==
    /\ ps[p].op = "idle" \/ ps[p].pc = "tn_sync"
    /\ LET q == [Idle EXCEPT !.op = "global", !.turn = ps[p].turn]
       IN  IF LockIsYoung
           THEN Set(p, [q EXCEPT !.pc = "g_finally", !.skip = TRUE])
           ELSE Set(p, [q EXCEPT !.pc = "g_lock", !.stale = rec /\ lock.ex])
    /\ UNCHANGED <<now, lock, story, tmp, sessions, plog, pstatus, narrated, collected, rec, graph, bootflag, llm, cg, mind>>

\* fs.writeFile(NARRATIVE_LOCK_FILE, {pid, startedAt})
GLock(p) ==
    /\ ps[p].pc = "g_lock"
    /\ lock' = [ex |-> TRUE, pid |-> p, mtime |-> now]
    /\ Set(p, [ps[p] EXCEPT !.pc = "g_scan"])
    /\ UNCHANGED <<now, story, tmp, sessions, plog, pstatus, narrated, collected, rec, graph, bootflag, llm, cg, mind>>

ParseAnchor(c) == IF HasHeader(c) THEN FirstHeader(c) ELSE 0

AllNewer(msgs, lastProcessed) == {m \in msgs : m.ts > lastProcessed}

\* The entries kept from the transcripts: newer than the anchor, with a text
\* that is no heartbeat.
NewMessages(msgs, lastProcessed) ==
    {m \in msgs : m.ts > lastProcessed /\ ~isHeartbeatMessage(m.text)}

\* Steps 1 to 4: read the Story's anchor, scan the transcripts, collect and
\* sort.  (The scan reads nothing another process writes but the transcripts,
\* which only grow, so the reads are taken as one step.)
GScan(p) ==
    /\ ps[p].pc = "g_scan"
    /\ LET lastProcessed == ParseAnchor(ReadContent(story))
           allNewMessages == NewMessages(sessions, lastProcessed)
       IN  IF sessions = {} \/ allNewMessages = {}
           THEN Set(p, [ps[p] EXCEPT !.pc = "g_finally"]) /\ collected' = collected
           ELSE /\ Set(p, [ps[p] EXCEPT !.pc = "g_read",
                                        !.todo = SortByTs(allNewMessages)])
                /\ collected' = collected \cup (IF rec THEN allNewMessages ELSE {})
    /\ UNCHANGED <<now, lock, story, tmp, sessions, plog, pstatus, narrated, rec, graph, bootflag, llm, cg, mind>>

\* let currentStory = await fs.readFile(storyPath).catch(() => ""), then the loop.
GRead(p) ==
    /\ ps[p].pc = "g_read"
    /\ Set(p, GlobalLoop([ps[p] EXCEPT !.cur = ReadContent(story)]))
    /\ UNCHANGED <<now, lock, story, tmp, sessions, plog, pstatus, narrated, collected, rec, graph, bootflag, llm, cg, mind>>

GFinallyKeepsLock(p) ==
    /\ ps[p].pc = "g_finally"
    /\ IF ps[p].turn.on
       THEN Set(p, [Idle EXCEPT !.op = "turn", !.pc = "tn_store", !.turn = ps[p].turn])
       ELSE Set(p, Idle)
    /\ UNCHANGED <<now, lock, story, tmp, sessions, plog, pstatus, narrated, collected, rec, graph, bootflag, llm, cg, mind>>

\* finally { await fs.unlink(NARRATIVE_LOCK_FILE) }
GFinally(p) ==
    /\ ps[p].pc = "g_finally"
    /\ lock' = NoLock
    /\ IF ps[p].turn.on
       THEN Set(p, [Idle EXCEPT !.op = "turn", !.pc = "tn_store", !.turn = ps[p].turn])
       ELSE Set(p, Idle)
    /\ UNCHANGED <<now, story, tmp, sessions, plog, pstatus, narrated, collected, rec, graph, bootflag, llm, cg, mind>>

\* An awaited filesystem call of the body (readdir, readFile of a transcript)
\* rejects: catch (e) logs "Global Sync failed", then the finally block runs.
GFails(p) ==
    /\ ps[p].pc \in {"g_scan", "g_read"}
    /\ Set(p, [ps[p] EXCEPT !.pc = "g_finally"])
    /\ UNCHANGED <<now, lock, story, tmp, sessions, plog, pstatus, narrated, collected, rec, graph, bootflag, llm, cg, mind>>

(* ---------------------------------------------------------------------- *)
(* syncStoryWithSession                                                   *)
(* ---------------------------------------------------------------------- *)

\* The runner passes the compacted-away messages of its session, in branch order.
SRead(p) ==
    /\ ps[p].op = "idle"
    /\ \E M \in SUBSET sessions :
        LET messages == SortByTs(M)
            currentStory == ReadContent(story)
            lastProcessed == ParseAnchor(currentStory)
            newMessages == SelectSeq(messages,
                              LAMBDA m : m.ts > lastProcessed /\ ~isHeartbeatMessage(m.text))
        IN  /\ M # {}
            /\ IF newMessages = <<>>
               THEN UNCHANGED <<ps, collected>>
               ELSE /\ Set(p, SessionLoop([Idle EXCEPT !.op = "session",
                                                       !.cur = currentStory,
                                                       !.todo = newMessages,
                                                       !.latestTs = Last(newMessages).ts]))
                    /\ collected' = collected \cup (IF rec THEN SeqSet(newMessages) ELSE {})
    /\ UNCHANGED <<now, lock, story, tmp, sessions, plog, pstatus, narrated, rec, graph, bootflag, llm, cg, mind>>

\* A process may be killed at any await; nothing of its handler runs after that.
Closed(f, p) == IF f.ex THEN [f EXCEPT !.wr = f.wr \ {p}] ELSE f

Crash(p) ==
    /\ ps[p].op # "idle"
    /\ Set(p, Idle)
    /\ tmp' = Closed(tmp, p)
    /\ story' = Closed(story, p)
    /\ UNCHANGED <<now, lock, sessions, plog, pstatus, narrated, collected, rec, graph, bootflag, llm, cg, mind>>

(* ---------------------------------------------------------------------- *)
(* The pending log: trackPendingEpisode, resetPendingStatus               *)
(* ---------------------------------------------------------------------- *)

\* getPendingStatus: {0, 0} when the file is missing.
getPendingStatus == [messages |-> pstatus.messages, tokens |-> pstatus.tokens]

\* The texts trackPendingEpisode is called with.
TrackTexts == {PlainText, HbPrompt, HbResponse}

\* if (this.isHeartbeatMessage(text)) return; else the status is read.
TStatus(p) ==
    /\ ps[p].op = "idle"
    /\ Len(plog.entries) < MaxLog
    /\ pstatus.messages < MaxLog
    /\ \E text \in TrackTexts, k \in 1..MaxTok :
          LET q == [Idle EXCEPT !.op = "track",
                                !.batch = <<[ts |-> 0, tok |-> k, text |-> text]>>]
          IN  IF isHeartbeatMessage(text)
              THEN k = 1 /\ Set(p, [q EXCEPT !.pc = "t_return"])
              ELSE Set(p, [q EXCEPT !.pc = "t_append", !.st = getPendingStatus])
    /\ UNCHANGED <<now, lock, story, tmp, sessions, plog, pstatus, narrated, collected, rec, graph, bootflag, llm, cg, mind>>

\* The promise of a call that returned at its first line resolves.
TReturn(p) ==
    /\ ps[p].pc = "t_return"
    /\ Set(p, Idle)
    /\ UNCHANGED <<now, lock, story, tmp, sessions, plog, pstatus, narrated, collected, rec, graph, bootflag, llm, cg, mind>>

\* fs.appendFile(logPath, `[${timestamp}] ${text}\n---\n`)
TAppend(p) ==
    /\ ps[p].pc = "t_append"
    /\ plog' = [ex |-> TRUE,
                entries |-> plog.entries \o <<[ps[p].batch[1] EXCEPT !.ts = now]>>]
    /\ Set(p, [ps[p] EXCEPT !.pc = "t_write"])
    /\ UNCHANGED <<now, lock, story, tmp, sessions, pstatus, narrated, collected, rec, graph, bootflag, llm, cg, mind>>

\* status.messages += 1; status.tokens += tokens; fs.writeFile(statusPath, ...)
MessagesOnly(status, tokens) ==
    [ex |-> TRUE, messages |-> status.messages + 1, tokens |-> status.tokens]

StatusAfterTrack(status, tokens) ==
    [ex |-> TRUE, messages |-> status.messages + 1, tokens |-> status.tokens + tokens]

TWrite(p) ==
    /\ ps[p].pc = "t_write"
    /\ pstatus' = StatusAfterTrack(ps[p].st, ps[p].batch[1].tok)
    /\ Set(p, Idle)
    /\ UNCHANGED <<now, lock, story, tmp, sessions, plog, narrated, collected, rec, graph, bootflag, llm, cg, mind>>

\* resetPendingStatus, called directly or at the end of checkAndConsolidate:
\* fs.writeFile(statusPath, {messages: 0, tokens: 0}) ...
RStatus(p) ==
    /\ ps[p].op = "idle" \/ ps[p].pc = "r_status"
    /\ pstatus' = [ex |-> TRUE, messages |-> 0, tokens |-> 0]
    /\ Set(p, [ps[p] EXCEPT !.pc = "r_unlink",
                            !.op = IF ps[p].op = "idle" THEN "reset" ELSE ps[p].op])
    /\ UNCHANGED <<now, lock, story, tmp, sessions, plog, narrated, collected, rec, graph, bootflag, llm, cg, mind>>

\* ... then fs.unlink(logPath), a missing log ignored.
RUnlink(p) ==
    /\ ps[p].pc = "r_unlink"
    /\ plog' = NoLog
    /\ Set(p, Idle)
    /\ UNCHANGED <<now, lock, story, tmp, sessions, pstatus, narrated, collected, rec, graph, bootflag, llm, cg, mind>>

\* The filesystem refuses an operation (memoryDir missing, disk full, no
\* permission).  trackPendingEpisode awaits fs.appendFile and fs.writeFile
\* outside any try block: the rejection is the rejection of its own promise.
TAppendFails(p) ==
    /\ ps[p].pc = "t_append"
    /\ Set(p, [ps[p] EXCEPT !.pc = "rejected"])
    /\ UNCHANGED <<now, lock, story, tmp, sessions, plog, pstatus, narrated, collected, rec, graph, bootflag, llm, cg, mind>>

TWriteFails(p) ==
    /\ ps[p].pc = "t_write"
    /\ Set(p, [ps[p] EXCEPT !.pc = "rejected"])
    /\ UNCHANGED <<now, lock, story, tmp, sessions, plog, pstatus, narrated, collected, rec, graph, bootflag, llm, cg, mind>>

\* resetPendingStatus awaits fs.writeFile before its try block.  Called
\* directly the rejection leaves the function; called at the end of
\* checkAndConsolidate it is caught by the catch of that function.
RStatusFails(p) ==
    /\ ps[p].op = "idle" \/ ps[p].pc = "r_status"
    /\ IF ps[p].op = "idle"
       THEN Set(p, [Idle EXCEPT !.op = "reset", !.pc = "rejected"])
       ELSE Set(p, Idle)
    /\ UNCHANGED <<now, lock, story, tmp, sessions, plog, pstatus, narrated, collected, rec, graph, bootflag, llm, cg, mind>>

\* The caller of a rejected call goes on.
Rejected(p) ==
    /\ ps[p].pc = "rejected"
    /\ Set(p, Idle)
    /\ UNCHANGED <<now, lock, story, tmp, sessions, plog, pstatus, narrated, collected, rec, graph, bootflag, llm, cg, mind>>

FsFailStep(p) == TAppendFails(p) \/ TWriteFails(p) \/ RStatusFails(p) \/ Rejected(p)

(* ---------------------------------------------------------------------- *)
(* checkAndConsolidate                                                    *)
(* ---------------------------------------------------------------------- *)

\* The memory/ directory next to the Story: its .md files in filename order,
\* each with the date its name starts with (0: none) and its token estimate.
MdFile(date, tokens) == [ts |-> date, tok |-> tokens, text |-> PlainText]

MemoryDirs ==
    {<<>>,
     <<MdFile(1, 1)>>,
     <<MdFile(0, 1)>>,
     <<MdFile(1, SafeTokenLimit + 1)>>,
     <<MdFile(1, SafeTokenLimit), MdFile(2, 1)>>}

\* What graph.getEpisodesSince may return, heartbeats filtered out.
GraphEpisodes == {<<>>, <<[ts |-> now, tok |-> 1, text |-> PlainText]>>}

FreshStory == <<Hdr(now), Txt("(Tu historia comienza ahora...)")>>
BareSkeleton == <<Hdr(0)>>

SkeletonStory == <<Hdr(0), Txt("(Historia pendiente de inicializacion historica...)")>>

\* stats.size < 50: of the texts of this model only the empty one is that short.
SizeBelow50(c) == c = <<>>

\* The header decides lastUpdate; without one a short file is a new story and
\* a longer one is dated by its mtime.
LastUpdate(f) ==
    LET c == ReadContent(f)
    IN  IF HasHeader(c) THEN FirstHeader(c)
        ELSE IF SizeBelow50(c) THEN 0 ELSE f.mtime

AlwaysNew(f) == TRUE

\* isNewStory: no file, a short file without header, or nothing left once the
\* comments are stripped.
IsNewStory(f) ==
    \/ ~f.ex
    \/ ~HasHeader(ReadContent(f)) /\ SizeBelow50(ReadContent(f))
    \/ StripHeaders(ReadContent(f)) = <<>>

\* fs.stat and fs.readFile of the Story, then, for a new story, the readdir of
\* memory/ and the choice between fresh story, bootstrap and skeleton.
KStat(p) ==
    /\ ps[p].op = "idle"
    /\ \E mdFiles \in MemoryDirs, autoBootstrap \in BOOLEAN :
          LET q == [Idle EXCEPT !.op = "consolidate"]
          IN  IF IsNewStory(story)
              THEN IF mdFiles = <<>>
                   THEN Set(p, [q EXCEPT !.pc = "d_open", !.new = FreshStory])
                   ELSE IF autoBootstrap
                        THEN Set(p, BootLoop([q EXCEPT !.todo = mdFiles]))
                        ELSE Set(p, [q EXCEPT !.pc = "d_open", !.new = SkeletonStory])
              ELSE Set(p, [q EXCEPT !.pc = "k_status", !.cur = ReadContent(story),
                                    !.latestTs = LastUpdate(story)])
    /\ UNCHANGED <<now, lock, story, tmp, sessions, plog, pstatus, narrated, collected, rec, graph, bootflag, llm, cg, mind>>

\* fs.writeFile(storyPath, ...) of the fresh story and of the skeleton: the
\* Story file itself is opened, truncated ...
DOpen(p) ==
    /\ ps[p].pc = "d_open"
    /\ story' = OpenForWrite(story, p)
    /\ Set(p, [ps[p] EXCEPT !.pc = "d_write"])
    /\ UNCHANGED <<now, lock, tmp, sessions, plog, pstatus, narrated, collected, rec, graph, bootflag, llm, cg, mind>>

\* ... and written.
DWrite(p) ==
    /\ ps[p].pc = "d_write"
    /\ IF story.ex /\ p \in story.wr
       THEN story' = Written(story, p, ps[p].new)
       ELSE story' = story
    /\ Set(p, Idle)
    /\ UNCHANGED <<now, lock, tmp, sessions, plog, pstatus, narrated, collected, rec, graph, bootflag, llm, cg, mind>>

\* Nothing pending, or fewer tokens than the threshold: return.
NeverBelow(status) == FALSE

BelowThreshold(status) == status.tokens < TokenThreshold

KStatus(p) ==
    /\ ps[p].pc = "k_status"
    /\ LET status == getPendingStatus
       IN  IF (status.tokens = 0 /\ status.messages = 0) \/ BelowThreshold(status)
           THEN Set(p, Idle)
           ELSE Set(p, [ps[p] EXCEPT !.pc = "k_log"])
    /\ UNCHANGED <<now, lock, story, tmp, sessions, plog, pstatus, narrated, collected, rec, graph, bootflag, llm, cg, mind>>

\* The transcript: the pending log, or the graph's episodes when the log cannot
\* be read.  An empty transcript defers; else updateNarrativeStory is called
\* with the transcript string, anchored at lastUpdate, and then the reset.
NeverDeferred(pendingTranscript) == FALSE

\* if (pendingTranscript.trim()) ... else "Consolidation deferred"
Deferred(pendingTranscript) == pendingTranscript = <<>>

KLog(p) ==
    /\ ps[p].pc = "k_log"
    /\ \E graphEpisodes \in GraphEpisodes :
          LET pendingTranscript == IF plog.ex THEN plog.entries ELSE graphEpisodes
          IN  IF ~Deferred(pendingTranscript)
              THEN Set(p, CallUpdate(ps[p], pendingTranscript, FALSE, ps[p].latestTs, "k_reset"))
              ELSE Set(p, Idle)
    /\ UNCHANGED <<now, lock, story, tmp, sessions, plog, pstatus, narrated, collected, rec, graph, bootflag, llm, cg, mind>>

(* ---------------------------------------------------------------------- *)
(* The runner's turn: memory storage around the agent's reply             *)
(* ---------------------------------------------------------------------- *)

\* The prompts of a turn and the replies of the agent.
PromptTexts == {PlainText, HbPrompt, HbPromptOther, HbResponse}
AssistantTexts == {PlainText, HbResponse}

\* params.prompt.includes("Read HEARTBEAT.md") && params.prompt.includes("reply HEARTBEAT_OK")
isHeartbeatPrompt(prompt) == prompt.readHb /\ prompt.reply

\* assistantText === "HEARTBEAT_OK"
isHeartbeatResponse(assistantText) == assistantText.isOk

Episode(role, text) == [role |-> role, text |-> text]

\* The episode of one historical memory file.
FileEpisode(file) == Episode("system", file.text)

\* The single transcript episode of the session's messages: none when every
\* message is a heartbeat.
TranscriptEpisodes(sessionMessages) ==
    {Episode("transcript", m.text) : m \in {x \in sessionMessages : ~isHeartbeatMessage(x.text)}}

\* The storage section of a turn up to its bootstrapHistoricalEpisodes call;
\* a heartbeat prompt skips the section and the flashbacks.  sessionFile is
\* what params.sessionFile holds: some of the transcripts' messages.
TurnStart(p) ==
    /\ ps[p].op = "idle"
    /\ \E prompt \in PromptTexts, sessionFile \in SUBSET sessions :
          LET q == [Idle EXCEPT !.op = "turn",
                                !.turn = [NoTurn EXCEPT !.on = TRUE, !.prompt = prompt,
                                                        !.hb = isHeartbeatPrompt(prompt),
                                                        !.sessionFile = sessionFile]]
          IN  IF isHeartbeatPrompt(prompt)
              THEN Set(p, [q EXCEPT !.pc = "tn_reply"])
              ELSE Set(p, [q EXCEPT !.pc = "tn_boot"])
    /\ UNCHANGED <<now, lock, story, tmp, sessions, plog, pstatus, narrated, collected, rec, graph, bootflag, llm, cg, mind>>

\* bootstrapHistoricalEpisodes: fs.access of the flag returns at once when the
\* flag is there; otherwise readdir lists the .md files, sorted.
BhAccess(p) ==
    /\ ps[p].pc = "tn_boot"
    /\ IF bootflag
       THEN Set(p, [ps[p] EXCEPT !.pc = "tn_sync"])
       ELSE \E mdFiles \in MemoryDirs :
               Set(p, [ps[p] EXCEPT !.pc = "bh_file", !.todo = mdFiles])
    /\ UNCHANGED <<now, lock, story, tmp, sessions, plog, pstatus, narrated, collected, rec, graph, bootflag, llm, cg, mind>>

\* One round of the loop over mdFiles: readFile, then graph.addEpisode.
BhFile(p) ==
    /\ ps[p].pc = "bh_file"
    /\ IF ps[p].todo = <<>>
       THEN Set(p, [ps[p] EXCEPT !.pc = "bh_transcript"]) /\ graph' = graph
       ELSE /\ graph' = graph \cup {FileEpisode(Head(ps[p].todo))}
            /\ Set(p, [ps[p] EXCEPT !.todo = Tail(ps[p].todo)])
    /\ UNCHANGED <<now, lock, story, tmp, sessions, plog, pstatus, narrated, collected, rec, bootflag, llm, cg, mind>>

\* readFile of a memory file, or addEpisode, throws: the catch around the
\* whole body logs "Historical bootstrap failed" and the function returns.
BhFileFails(p) ==
    /\ ps[p].pc = "bh_file"
    /\ ps[p].todo # <<>>
    /\ Set(p, [ps[p] EXCEPT !.pc = "tn_sync", !.todo = <<>>])
    /\ UNCHANGED <<now, lock, story, tmp, sessions, plog, pstatus, narrated, collected, rec, graph, bootflag, llm, cg, mind>>

\* The session's messages as one transcript episode.
BhTranscript(p) ==
    /\ ps[p].pc = "bh_transcript"
    /\ graph' = graph \cup TranscriptEpisodes(ps[p].turn.sessionFile)
    /\ Set(p, [ps[p] EXCEPT !.pc = "bh_flag"])
    /\ UNCHANGED <<now, lock, story, tmp, sessions, plog, pstatus, narrated, collected, rec, bootflag, llm, cg, mind>>

NeverFlagged == bootflag

\* fs.writeFile(bootstrapFlagPath, ...)
FlagWritten == TRUE

BhFlag(p) ==
    /\ ps[p].pc = "bh_flag"
    /\ bootflag' = FlagWritten
    /\ Set(p, [ps[p] EXCEPT !.pc = "tn_sync"])
    /\ UNCHANGED <<now, lock, story, tmp, sessions, plog, pstatus, narrated, collected, rec, graph, llm, cg, mind>>

BootstrapStep(p) == BhAccess(p) \/ BhFile(p) \/ BhTranscript(p) \/ BhFlag(p)

\* await gs.addEpisode(globalSessionId, `human: ${params.prompt}`)
TurnStore(p) ==
    /\ ps[p].pc = "tn_store"
    /\ graph' = graph \cup {Episode("human", ps[p].turn.prompt)}
    /\ Set(p, [ps[p] EXCEPT !.pc = "tn_search", !.turn.stored = TRUE])
    /\ UNCHANGED <<now, lock, story, tmp, sessions, plog, pstatus, narrated, collected, rec, bootflag, llm, cg, mind>>

\* const flashbacks = await sub.getFlashback(globalSessionId, params.prompt, ...),
\* unless MIND_SKIP_RESONANCE is set.
TurnSearch(p) ==
    /\ ps[p].pc = "tn_search"
    /\ \E skipResonance \in BOOLEAN :
          Set(p, [ps[p] EXCEPT !.pc = "tn_reply", !.turn.searched = ~skipResonance])
    /\ UNCHANGED <<now, lock, story, tmp, sessions, plog, pstatus, narrated, collected, rec, graph, bootflag, llm, cg, mind>>

\* The agent's reply and its persistence.
TurnReply(p) ==
    /\ ps[p].pc = "tn_reply"
    /\ \E assistantText \in AssistantTexts, hasText \in BOOLEAN :
          graph' = IF ~ps[p].turn.hb /\ ~isHeartbeatResponse(assistantText) /\ hasText
                   THEN graph \cup {Episode("assistant", assistantText)}
                   ELSE graph
    /\ Set(p, Idle)
    /\ UNCHANGED <<now, lock, story, tmp, sessions, plog, pstatus, narrated, collected, rec, bootflag, llm, cg, mind>>

TurnStep(p) ==
    \/ TurnStart(p) \/ BootstrapStep(p)
    \/ TurnStore(p) \/ TurnSearch(p) \/ TurnReply(p)

PendingStep(p) ==
    \/ TStatus(p) \/ TReturn(p) \/ TAppend(p) \/ TWrite(p)
    \/ RStatus(p) \/ RUnlink(p)
    \/ KStat(p) \/ DOpen(p) \/ DWrite(p) \/ KStatus(p) \/ KLog(p)

TrackStep(p) == TStatus(p) \/ TReturn(p) \/ TAppend(p) \/ TWrite(p)

UpdateStep(p) == ULlm(p) \/ UWrite(p) \/ URename(p)

SyncStep(p) ==
    \/ GStat(p) \/ GLock(p) \/ GScan(p) \/ GRead(p) \/ GFinally(p)
    \/ SRead(p)
    \/ UpdateStep(p)

Next ==
    \/ Tick
    \/ Chat
    \/ \E p \in Procs : SyncStep(p)
    \/ \E p \in Procs : Crash(p)

Spec == Init /\ [][Next]_vars

\* One process running the handlers one after the other, never killed.
NextSeq ==
    \/ Tick
    \/ Chat
    \/ SyncStep("p1")
    \/ PendingStep("p1")

SpecSeq == InitSeq /\ [][NextSeq]_vars

\* One process running the two sync handlers only.
NextSolo ==
    \/ Tick
    \/ Chat
    \/ SyncStep("p1")

SpecSolo == InitSeq /\ [][NextSolo]_vars

\* One process running the sync handlers, which may be killed at any await.
NextReclaim ==
    \/ Tick
    \/ Chat
    \/ SyncStep("p1")
    \/ Crash("p1")

SpecReclaim == InitSeq /\ [][NextReclaim]_vars

\* One process running the sync handlers to their end on a filesystem that
\* may fail; the event loop runs every continuation that is ready.
NextLive ==
    \/ Tick
    \/ Chat
    \/ SyncStep("p1")
    \/ GFails("p1")

SpecLive == InitSeq /\ [][NextLive]_vars /\ WF_vars(SyncStep("p1"))

\* checkAndConsolidate and resetPendingStatus, with a second turn of the same
\* agent that tracks its episodes meanwhile.
NextRace ==
    \/ Tick
    \/ KStat("p1") \/ DOpen("p1") \/ DWrite("p1") \/ KStatus("p1") \/ KLog("p1")
    \/ RStatus("p1") \/ RUnlink("p1")
    \/ UpdateStep("p1")
    \/ TrackStep("p2")

SpecRace == InitSeq /\ [][NextRace]_vars

\* One process running the handlers of the pending log only.
NextPending ==
    \/ Tick
    \/ PendingStep("p1")
    \/ UpdateStep("p1")

SpecPending == InitSeq /\ [][NextPending]_vars

\* The handlers of the pending log on a filesystem that may fail.
NextFaulty ==
    \/ Tick
    \/ PendingStep("p1")
    \/ UpdateStep("p1")
    \/ FsFailStep("p1")

SpecFaulty == InitSeq /\ [][NextFaulty]_vars

\* One process running turns, with the sync handlers a turn calls.
NextTurn ==
    \/ Tick
    \/ Chat
    \/ TurnStep("p1")
    \/ SyncStep("p1")

SpecTurn == InitSeq /\ [][NextTurn]_vars

\* One process running turns whose historical ingest may hit a file it cannot
\* read, at one instant of the clock.
NextIngest ==
    \/ Chat
    \/ TurnStep("p1")
    \/ BhFileFails("p1")
    \/ GStat("p1") \/ GLock("p1") \/ GScan("p1") \/ GRead("p1") \/ GFinally("p1")
    \/ UpdateStep("p1")

SpecIngest == InitSeq /\ [][NextIngest]_vars

(* ---------------------------------------------------------------------- *)
(* The subconscious agent: consumeStream and complete                     *)
(* ---------------------------------------------------------------------- *)

Providers == {"github-copilot", "openai"}

AnyProvider(provider) == TRUE

\* /github-copilot/.test(model.provider || "")
isCopilotProvider(provider) == provider = "github-copilot"

\* The chunks of a stream, by what consumeStream does with them: an error
\* event, a chunk with the whole content so far, a text delta, a chunk
\* without text (start, done).
ChunkKinds == {"error", "content", "delta", "other"}

\* collected after one more chunk that is no error event.
Collect(text, kind) ==
    CASE kind = "content" -> <<"c">>
      [] kind = "delta" -> text \o <<"d">>
      [] OTHER -> text

\* complete(prompt) up to the opening of the primary stream; without an API
\* key it returns the empty text.
CStart ==
    /\ cg.pc = "idle"
    /\ \E provider \in Providers, key \in BOOLEAN :
          IF key
          THEN cg' = [NoCall EXCEPT !.pc = "stream", !.provider = provider,
                                    !.which = "primary"]
          ELSE cg' = [NoCall EXCEPT !.pc = "done", !.provider = provider]
    /\ UNCHANGED <<files, mind>>

\* One turn of consumeStream's for-await loop.
CChunk ==
    /\ cg.pc = "stream"
    /\ cg.n < MaxChunks
    /\ \E kind \in ChunkKinds :
          IF kind = "error"
          THEN cg' = [cg EXCEPT !.pc = "consumed", !.streamError = TRUE]
          ELSE cg' = [cg EXCEPT !.n = cg.n + 1, !.collected = Collect(cg.collected, kind)]
    /\ UNCHANGED <<files, mind>>

\* The stream ends.
CEnd ==
    /\ cg.pc = "stream"
    /\ cg' = [cg EXCEPT !.pc = "consumed"]
    /\ UNCHANGED <<files, mind>>

\* The stream, or anything else inside the try, throws: the catch leaves
\* fullText as it is.
CThrow ==
    /\ cg.pc = "stream"
    /\ cg' = [cg EXCEPT !.pc = "done", !.threw = TRUE]
    /\ UNCHANGED <<files, mind>>

\* After consumeStream: the failover test, else fullText = result.text.
CResult ==
    /\ cg.pc = "consumed"
    /\ LET c == IF cg.which = "primary"
                 THEN [cg EXCEPT !.primaryError = cg.streamError,
                                 !.primaryText = cg.collected]
                 ELSE cg
       IN  IF /\ cg.which = "primary"
              /\ cg.streamError /\ isCopilotProvider(cg.provider) /\ cg.collected = <<>>
           THEN cg' = [c EXCEPT !.pc = "stream", !.which = "fallback", !.n = 0,
                                !.collected = <<>>, !.streamError = FALSE,
                                !.fallbacks = cg.fallbacks + 1]
           ELSE cg' = [c EXCEPT !.pc = "done", !.fullText = cg.collected]
    /\ UNCHANGED <<files, mind>>

\* return { text: fullText }
CReturn ==
    /\ cg.pc = "done"
    /\ cg' = NoCall
    /\ UNCHANGED <<files, mind>>

NextComplete == CStart \/ CChunk \/ CEnd \/ CThrow \/ CResult \/ CReturn

SpecComplete == InitSeq /\ [][NextComplete]_vars

\* One process syncing its session with a model that may write long stories.
NextWords ==
    \/ Tick
    \/ Chat
    \/ SRead("p1")
    \/ UpdateStep("p1")
    \/ UCompress("p1")

SpecWords == InitWords /\ [][NextWords]_vars

(* ---------------------------------------------------------------------- *)
(* SubconsciousService: truncateRepetitive                                *)
(* ---------------------------------------------------------------------- *)

\* text.substring(a, b), indices from 0.
Substring(text, a, b) == SubSeq(text, a + 1, b)

\* text.trim().length
TrimLength(text) ==
    LET inked == {i \in 1..Len(text) : text[i] # " "}
    IN  IF inked = {} THEN 0
        ELSE (CHOOSE i \in inked : \A j \in inked : j <= i)
             - (CHOOSE i \in inked : \A j \in inked : i <= j) + 1

\* chunk === next && chunk.trim().length >= 3, at offset i with length len.
Repeats(text, len, i) ==
    LET chunk == Substring(text, i, i + len)
        next == Substring(text, i + len, i + 2 * len)
    IN  chunk = next /\ TrimLength(chunk) >= 3

\* The longest immediate repetition, the leftmost of that length, decides
\* where the text is cut.
truncateRepetitive(text) ==
    LET n == Len(text)
        lens == {len \in 3..(n \div 2) : \E i \in 0..(n - 2 * len) : Repeats(text, len, i)}
    IN  IF lens = {} THEN text
        ELSE LET len == CHOOSE l \in lens : \A m \in lens : m <= l
                 i == CHOOSE k \in 0..(n - 2 * len) :
                         Repeats(text, len, k) /\ \A j \in 0..(k - 1) : ~Repeats(text, len, j)
             IN  Substring(text, 0, i + len)

\* The raw outputs of the observer's model.
RawOutputs == UNION {[1..n -> Chars] : n \in 0..MaxText}

InitTrunc ==
    /\ InitFiles /\ rec = TRUE /\ llm = ShortStories
    /\ recentlyRecalled = <<>> /\ fb = NoFlashback /\ recall = {} /\ rel = NoRel
    /\ tr \in {[NoTrunc EXCEPT !.text = t] : t \in RawOutputs}

\* rawOutput = this.truncateRepetitive(rawOutput)
TruncateOnce ==
    /\ tr.n = 0
    /\ tr' = [tr EXCEPT !.n = 1, !.once = truncateRepetitive(tr.text)]
    /\ UNCHANGED <<files, cg, recentlyRecalled, fb, recall, rel>>

\* The function applied to its own result.
TruncateTwice ==
    /\ tr.n = 1
    /\ tr' = [tr EXCEPT !.n = 2, !.twice = truncateRepetitive(tr.once)]
    /\ UNCHANGED <<files, cg, recentlyRecalled, fb, recall, rel>>

NextTrunc == TruncateOnce \/ TruncateTwice

SpecTrunc == InitTrunc /\ [][NextTrunc]_vars

(* ---------------------------------------------------------------------- *)
(* getRelativeTimeDescription                                             *)
(* ---------------------------------------------------------------------- *)

\* A label: its wording, the number it shows (-1: none) and its day part.
Label(form, n, part) == [form |-> form, n |-> n, part |-> part]

\* getDayPart, from the local hour of the date.
getDayPart(hr) ==
    IF hr >= 6 /\ hr < 13 THEN "in the morning"
    ELSE IF hr >= 13 /\ hr < 20 THEN "in the afternoon"
    ELSE IF hr >= 20 \/ hr < 1 THEN "at night"
    ELSE "in the early morning"

\* The function, from diffSec = floor((now - date) / 1000) and the date's hour.
getRelativeTimeDescription(diffSec, hr) ==
    LET diffMin == diffSec \div 60
        diffHr == diffMin \div 60
        diffDays == diffHr \div 24
        diffMonths == diffDays \div 30
        diffYears == diffDays \div 365
        monthsExtra == diffMonths % 12
    IN  IF diffSec < 60 THEN Label("just a moment ago", -1, "")
        ELSE IF diffMin < 60
        THEN IF diffMin = 1 THEN Label("a minute ago", -1, "")
             ELSE IF diffMin < 5 THEN Label("a few minutes ago", -1, "")
             ELSE Label("about N minutes ago", diffMin, "")
        ELSE IF diffHr < 24
        THEN IF diffHr = 1 THEN Label("almost 1h ago", -1, "")
             ELSE IF diffHr < 3 THEN Label("less than Nh ago", diffHr + 1, "")
             ELSE IF diffHr < 6 THEN Label("a few hours ago", -1, "")
             ELSE Label("this", -1, getDayPart(hr))
        ELSE IF diffDays = 1 THEN Label("yesterday", -1, getDayPart(hr))
        ELSE IF diffDays = 2 THEN Label("the day before yesterday", -1, getDayPart(hr))
        ELSE IF diffDays < 7 THEN Label("N days ago", diffDays, getDayPart(hr))
        ELSE IF diffDays < 14 THEN Label("last week", -1, "")
        ELSE IF diffDays < 30 THEN Label("N weeks ago", diffDays \div 7, "")
        ELSE IF diffMonths < 12
        THEN IF diffMonths = 1 THEN Label("1 month ago", -1, "")
             ELSE IF diffMonths < 11 THEN Label("N months ago", diffMonths, "")
             ELSE Label("almost a year ago", -1, "")
        ELSE IF diffYears = 1
        THEN IF monthsExtra > 9 THEN Label("almost 2 years ago", -1, "")
             ELSE Label("a year and a few months ago", -1, "")
        ELSE IF diffYears < 5
        THEN IF monthsExtra > 9 THEN Label("almost N years ago", diffYears + 1, "")
             ELSE IF monthsExtra >= 1 THEN Label("N years ago or so", diffYears, "")
             ELSE Label("N years ago", diffYears, "")
        ELSE Label("about N years ago", diffYears, "")

\* The ages described: every second count that matters within the first day,
\* then the first and the last second of every later day.
SecondsPerDay == 86400
MaxAgeDays == 1830
DaySeconds == {0, 59, 60, 119, 120, 299, 300, 3599, 3600, 7199, 7200, 10799, 10800, 21599, 21600, 86399}
Ages ==
    DaySeconds \cup {d * SecondsPerDay + s : d \in 1..MaxAgeDays, s \in {0, SecondsPerDay - 1}}

InitRel ==
    /\ InitFiles /\ rec = TRUE /\ llm = ShortStories
    /\ recentlyRecalled = <<>> /\ fb = NoFlashback /\ recall = {} /\ tr = NoTrunc
    /\ rel \in {[NoRel EXCEPT !.diffSec = a, !.hr = h] : a \in Ages, h \in 0..23}

\* const relativeTime = getRelativeTimeDescription(finalDate)
Describe ==
    /\ rel.n = 0
    /\ rel' = [rel EXCEPT !.n = 1, !.label = getRelativeTimeDescription(rel.diffSec, rel.hr)]
    /\ UNCHANGED <<files, cg, recentlyRecalled, fb, tr, recall>>

NextRel == Describe

SpecRel == InitRel /\ [][NextRel]_vars

(* ---------------------------------------------------------------------- *)
(* SubconsciousService: getFlashback                                      *)
(* ---------------------------------------------------------------------- *)

\* The seed queries; _sourceQuery.toLowerCase().includes("fact") holds of the
\* second.
Queries == <<"q1", "fact q2">>
IncludesFact(query) == query = "fact q2"

\* A MemoryResult: id is message.uuid || uuid || JSON.stringify(text || content);
\* content is "json" when the text starts with { and ends with }; norm stands
\* for its first 30 lower-case alphanumerics (0: none); dateTag and stampTag
\* are the date of a "FECHA:"-like tag and of a [TIMESTAMP:...] tag in it.
PlainMemory(k, nq) ==
    [id |-> k, boosted |-> FALSE, content |-> "text", norm |-> k,
     query |-> Queries[((k - 1) % nq) + 1],
     ts |-> k, dateTag |-> Missing, stampTag |-> Missing]

\* What the searches bring back, duplicates by uuid already removed: the
\* first n memories of the graph, tagged with nq queries in turn, the first
\* of them boosted, or JSON only, or the second a near-duplicate of the first.
Shapes == {"plain", "boosted", "json", "dup"}
Sizes == {0, 1, 2, 6, MaxTotalSelected + 1, MaxMem}

Results(n, shape, nq) ==
    [i \in 1..n |->
        LET m == PlainMemory(i, nq)
        IN  IF i = 1 /\ shape = "boosted" THEN [m EXCEPT !.boosted = TRUE]
            ELSE IF i = 1 /\ shape = "json" THEN [m EXCEPT !.content = "json"]
            ELSE IF i = 2 /\ shape = "dup" THEN [m EXCEPT !.norm = 1]
            ELSE m]

BulkInputs ==
    {[results |-> Results(n, shape, nq), horizon |-> NoHorizon] :
        n \in Sizes, shape \in Shapes, nq \in 1..2}

\* One memory with every combination of own timestamp and tags, the caller
\* passing a horizon or none.
Stamps == {Missing, Unparseable, ContextStart - 1, ContextStart}

TaggedMemories ==
    {[PlainMemory(1, 1) EXCEPT !.ts = t, !.dateTag = d, !.stampTag = g] :
        t \in Stamps, d \in Stamps, g \in Stamps}

TaggedInputs ==
    {[results |-> r, horizon |-> h] :
        r \in {<<>>} \cup {<<m>> : m \in TaggedMemories},
        h \in {NoHorizon, ContextStart}}

\* applyMemoryHorizon: the date tag, else the [TIMESTAMP:] tag, else the
\* result's own timestamp.
EffectiveTimestamp(r) ==
    IF r.dateTag # Missing THEN r.dateTag
    ELSE IF r.stampTag # Missing THEN r.stampTag
    ELSE r.ts

KeepsAll(r, oldest) == TRUE

\* if (!timestamp) return true; if (isNaN(...)) return true;
\* return memoryDate.getTime() < oldestContextTimestamp.getTime()
KeptByHorizon(r, oldest) ==
    LET timestamp == EffectiveTimestamp(r)
    IN  \/ timestamp = Missing
        \/ timestamp = Unparseable
        \/ timestamp < oldest

applyMemoryHorizon(results, oldest) ==
    IF oldest = NoHorizon THEN results
    ELSE SelectSeq(results, LAMBDA r : KeptByHorizon(r, oldest))

NeverBlocked(r, recalled) == TRUE

\* if (r._boosted) return true; return !this.recentlyRecalled.has(id)
PassesEcho(r, recalled) == r.boosted \/ r.id \notin SeqSet(recalled)

\* this.recentlyRecalled.add(id) for each survivor: a Set keeps the order of
\* first insertion.
RECURSIVE AddAll(_, _)
AddAll(recalled, filtered) ==
    IF filtered = <<>> THEN recalled
    ELSE AddAll(IF Head(filtered).id \in SeqSet(recalled) THEN recalled
                ELSE Append(recalled, Head(filtered).id),
                Tail(filtered))

KeepOldest(items) ==
    IF Len(items) > maxEchoFilterSize THEN SubSeq(items, 1, maxEchoFilterSize) ELSE items

\* new Set(items.slice(-this.maxEchoFilterSize))
KeepNewest(items) ==
    IF Len(items) > maxEchoFilterSize
    THEN SubSeq(items, Len(items) - maxEchoFilterSize + 1, Len(items))
    ELSE items

\* The comparator of afterEcho.sort: boosted first, then facts, then by
\* timestamp in a direction each comparison draws with Math.random().  The two
\* outcomes modelled are those in which every comparison draws the same
\* direction; the position in the array breaks what ties remain.
SortDirections == {"oldFirst", "newFirst"}

ComesFirst(a, b, dir) ==
    IF a.boosted # b.boosted THEN a.boosted
    ELSE IF IncludesFact(a.query) # IncludesFact(b.query) THEN IncludesFact(a.query)
    ELSE IF dir = "oldFirst" THEN a.ts < b.ts
    ELSE a.ts > b.ts

Sorted(results, dir) ==
    LET n == Len(results)
        ahead(i) == {j \in 1..n : \/ ComesFirst(results[j], results[i], dir)
                                  \/ (~ComesFirst(results[i], results[j], dir) /\ j < i)}
    IN  [p \in 1..n |-> results[CHOOSE i \in 1..n : Cardinality(ahead(i)) = p - 1]]

\* The selection loop: stop at MaxTotalSelected, skip JSON-only contents,
\* contents with nothing alphanumeric and near-duplicates.
RECURSIVE Select(_, _, _)
Select(sorted, seenContent, selected) ==
    IF sorted = <<>> \/ Len(selected) >= MaxTotalSelected THEN selected
    ELSE LET r == Head(sorted)
         IN  IF r.content = "json" THEN Select(Tail(sorted), seenContent, selected)
             ELSE IF r.norm = 0 \/ r.norm \in seenContent
                  THEN Select(Tail(sorted), seenContent, selected)
             ELSE Select(Tail(sorted), seenContent \cup {r.norm}, Append(selected, r))

\* groupedMemories: a Map from _sourceQuery to its memories, in the order the
\* queries were first met; a group is the sequence of the ids of its bullets.
RECURSIVE GroupKeys(_, _)
GroupKeys(selected, keys) ==
    IF selected = <<>> THEN keys
    ELSE GroupKeys(Tail(selected),
                   IF Head(selected).query \in SeqSet(keys) THEN keys
                   ELSE Append(keys, Head(selected).query))

Group(selected, query) ==
    LET memories == SelectSeq(selected, LAMBDA r : r.query = query)
    IN  [query |-> query, bullets |-> [i \in 1..Len(memories) |-> memories[i].id]]

GroupedMemories(selected) ==
    LET keys == GroupKeys(selected, <<>>)
    IN  [k \in 1..Len(keys) |-> Group(selected, keys[k])]

\* How the groups are rendered: by the program ("off": no agent, or rewriting
\* disabled), or by the model, whose answer has lines that pass the line
\* filter ("bullets": one per memory), or none that does ("prose": the group
\* is filtered out as empty), or is empty or fails ("failed": the raw lines).
RewriteModes == {"off", "bullets", "prose", "failed"}

Rendered(groups, mode) == IF mode = "prose" THEN <<>> ELSE groups

RECURSIVE BulletIds(_)
BulletIds(groups) ==
    IF groups = <<>> THEN {}
    ELSE SeqSet(Head(groups).bullets) \cup BulletIds(Tail(groups))

\* return ""
ReturnsNothing(q) == [q EXCEPT !.pc = "returned", !.block = "", !.emitted = {}]

\* generateSeekerQueries, the parallel searches and the merge of their results.
FSearch ==
    /\ fb.pc \in {"idle", "returned"}
    /\ fb.calls < MaxCalls
    /\ \E input \in recall :
          fb' = [NoFlashback EXCEPT !.pc = "found", !.calls = fb.calls + 1,
                                    !.input = input, !.echo0 = recentlyRecalled,
                                    !.prev = {r.id : r \in {x \in SeqSet(fb.input.results) :
                                                                ~x.boosted /\ x.id \in fb.emitted}},
                                    !.shown = fb.shown]
    /\ UNCHANGED <<files, cg, recentlyRecalled, tr, recall, rel>>

\* From the test of allResults to the end of the selection loop: the horizon,
\* the echo filter with its update of recentlyRecalled, the sort, the caps.
FSelect ==
    /\ fb.pc = "found"
    /\ IF fb.input.results = <<>>
       THEN fb' = ReturnsNothing(fb) /\ UNCHANGED recentlyRecalled
       ELSE LET afterHorizon == applyMemoryHorizon(fb.input.results, fb.input.horizon)
                afterEcho == SelectSeq(afterHorizon, LAMBDA r : PassesEcho(r, recentlyRecalled))
                q == [fb EXCEPT !.afterHorizon = afterHorizon, !.afterEcho = afterEcho]
            IN  /\ recentlyRecalled' = KeepNewest(AddAll(recentlyRecalled, afterEcho))
                /\ IF afterEcho = <<>>
                   THEN fb' = ReturnsNothing(q)
                   ELSE \E dir \in SortDirections :
                           fb' = [q EXCEPT !.pc = "rewrite",
                                           !.accepted = Select(Sorted(afterEcho, dir), {}, <<>>)]
    /\ UNCHANGED <<files, cg, tr, recall, rel>>

\* The rewriting of the groups and the wrapping of the block.
FRewrite ==
    /\ fb.pc = "rewrite"
    /\ \E mode \in RewriteModes :
          LET body == Rendered(GroupedMemories(fb.accepted), mode)
          IN  fb' = [fb EXCEPT !.pc = "returned", !.block = "resonance",
                               !.body = body,
                               !.emitted = BulletIds(body),
                               !.shown = fb.shown \cup BulletIds(body)]
    /\ UNCHANGED <<files, cg, recentlyRecalled, tr, recall, rel>>

NextFlashback == FSearch \/ FSelect \/ FRewrite

InitFlashback ==
    /\ InitFiles /\ rec = TRUE /\ llm = ShortStories
    /\ recentlyRecalled = <<>> /\ fb = NoFlashback /\ tr = NoTrunc /\ rel = NoRel
    /\ recall = BulkInputs

SpecFlashback == InitFlashback /\ [][NextFlashback]_vars

\* The same calls on memories that carry date tags, with a horizon.
InitHorizon ==
    /\ InitFiles /\ rec = TRUE /\ llm = ShortStories
    /\ recentlyRecalled = <<>> /\ fb = NoFlashback /\ tr = NoTrunc /\ rel = NoRel
    /\ recall = TaggedInputs

SpecHorizon == InitHorizon /\ [][NextFlashback]_vars

(* ---------------------------------------------------------------------- *)
(* Properties                                                             *)
(* ---------------------------------------------------------------------- *)

\* A complete Story file with a LAST_PROCESSED comment, and its value.
HasAnchor(f) == f.ex /\ ~f.partial /\ HasHeader(f.c)
Anchor(f) == FirstHeader(f.c)

\* p is between its write of the lock file and its unlink of it.
Acquired(p) == ps[p].op = "global" /\ ps[p].pc # "g_lock" /\ ~ps[p].skip

\* C1: while no lock file can have turned stale, at most one process is
\* between lock acquisition and lock release in syncGlobalNarrative.
C1_AtMostOneHolder ==
    (now - TickMs < NARRATIVE_LOCK_MAX_AGE_MS)
        => Cardinality({p \in Procs : Acquired(p)}) <= 1

\* C2: a process about to rename the tmp file over the Story holds the
\* NarrativeLock (the lock file exists and names it).
C2_StoryWrittenUnderLock ==
    \A p \in Procs : (ps[p].pc = "u_rename" /\ tmp.ex) => (lock.ex /\ lock.pid = p)

\* C3: a syncGlobalNarrative call that found a young lock file leaves the
\* lock file as it is in every step it takes.
C3_SkipLeavesLock ==
    [][\A p \in Procs : (ps[p].skip /\ ps'[p] # ps[p]) => lock' = lock]_vars

\* C4: from one complete Story to the next, LAST_PROCESSED never decreases.
C4_AnchorNeverDecreases ==
    [][(HasAnchor(story) /\ HasAnchor(story')) => Anchor(story') >= Anchor(story)]_vars

\* C5: a successful updateNarrativeStory over a batch of messages (of a sync
\* run, or the pending log of the threshold-driven path) leaves a Story whose
\* LAST_PROCESSED is the batch's maximum timestamp.
PersistsBatch(p) ==
    /\ ps[p].pc = "u_rename"
    /\ tmp.ex
    /\ ps[p].ret \in {"g_loop", "g_final", "s_loop", "s_final", "k_reset"}
    /\ story' = tmp

C5_AnchorIsBatchMax ==
    [][\A p \in Procs :
          PersistsBatch(p) => (HasAnchor(story') /\ Anchor(story') = MaxTs(ps[p].batch))]_vars

\* C6: a complete Story file starts with its LAST_PROCESSED comment and holds
\* no other one.
HeaderFirstAndOnly(c) ==
    /\ c # <<>>
    /\ IsHdr(c[1])
    /\ \A i \in 2..Len(c) : IsTxt(c[i])

C6_HeaderFirstAndOnly ==
    (story.ex /\ ~story.partial) => HeaderFirstAndOnly(story.c)

\* C7: the Story path never shows a file that is still being written.
C7_NoPartialStory == story.ex => ~story.partial

\* C8: once the handler has returned, every message a sync run collected
\* whose timestamp is at or below the Story's LAST_PROCESSED was in a batch
\* whose Story write succeeded.
C8_NoMessageSkipped ==
    (ps["p1"].op = "idle" /\ HasAnchor(story))
        => \A m \in collected : m.ts <= Anchor(story) => m \in narrated

\* C9: checkAndConsolidate has reset the pending status only if its
\* updateNarrativeStory call persisted a Story.
C9_ResetOnlyAfterSuccess ==
    \A p \in Procs :
        (ps[p].op = "consolidate" /\ ps[p].pc = "r_unlink") => ps[p].ok

\* C10: whenever the process has completed its track and reset calls, the
\* status counts the non-heartbeat entries of the pending log and sums their
\* token estimates (no log: none), and a completed reset leaves the status
\* at {0, 0} and no log.
NonHeartbeatEntries == SelectSeq(plog.entries, LAMBDA e : ~isHeartbeatMessage(e.text))

StatusMatchesLog ==
    /\ getPendingStatus.messages = Len(NonHeartbeatEntries)
    /\ getPendingStatus.tokens = SumTok(NonHeartbeatEntries)

C10_StatusMatchesLog ==
    [][/\ ps'["p1"].op = "idle" => StatusMatchesLog'
       /\ (ps["p1"].pc = "r_unlink" /\ ps'["p1"].op = "idle")
             => (pstatus'.ex /\ pstatus'.messages = 0 /\ pstatus'.tokens = 0 /\ ~plog'.ex)]_vars

C10_Witness ==
    /\ ps["p1"].op = "idle"
    /\ Len(plog.entries) >= 2
    /\ pstatus.messages >= 2
    /\ pstatus.tokens >= 3

\* The heartbeat predicate as the specification words it.
SpecHeartbeat(text) == (text.readHb /\ text.hasOk) \/ text.isOk

\* C11: while a track call whose text satisfies the heartbeat predicate is in
\* progress, no step changes the status file or the pending log, and the
\* call's one step is its return.
C11_HeartbeatTrackIsNoOp ==
    [][\A p \in Procs :
          (ps[p].op = "track" /\ SpecHeartbeat(ps[p].batch[1].text))
              => /\ plog' = plog
                 /\ pstatus' = pstatus
                 /\ ps'[p] # ps[p] => ps'[p] = Idle]_vars

C11_Witness ==
    /\ ps["p1"].op = "track"
    /\ ps["p1"].batch[1].text = HbResponse
    /\ plog.ex
    /\ pstatus.messages > 0

\* C12: no text that satisfies the heartbeat predicate is in an episode added
\* to the graph, in an entry of the pending log, or in a batch handed to
\* updateNarrativeStory.
C12_NoHeartbeatInMemory ==
    /\ \A e \in graph : ~SpecHeartbeat(e.text)
    /\ \A i \in 1..Len(plog.entries) : ~SpecHeartbeat(plog.entries[i].text)
    /\ \A p \in Procs :
          ps[p].pc \in {"u_llm", "u_write", "u_rename"}
              => \A i \in 1..Len(ps[p].batch) : ~SpecHeartbeat(ps[p].batch[i].text)

\* C13: a checkAndConsolidate call on an existing Story that reads a status
\* of {0,0} or of fewer tokens than tokenThreshold returns at once and leaves
\* the Story, its tmp sibling, the pending log and the status unchanged; the
\* call reaches the LLM, and changes the Story, only with
\* status.tokens >= tokenThreshold.
C13_ThresholdGate ==
    [][\A p \in Procs :
          /\ (/\ ps[p].pc = "k_status"
              /\ \/ pstatus.tokens = 0 /\ pstatus.messages = 0
                 \/ pstatus.tokens < TokenThreshold)
                => /\ ps'[p] # ps[p] => ps'[p] = Idle
                   /\ UNCHANGED <<story, tmp, plog, pstatus>>
          /\ (ps'[p].op = "consolidate" /\ ps'[p].ret = "k_reset" /\ ps'[p].pc = "u_llm")
                => pstatus.tokens >= TokenThreshold
          /\ (ps[p].op = "consolidate" /\ ps[p].ret = "k_reset" /\ story' # story)
                => pstatus.tokens >= TokenThreshold]_vars

C13_Witness ==
    /\ ps["p1"].pc = "k_status"
    /\ pstatus.tokens > 0
    /\ pstatus.tokens < TokenThreshold
    /\ plog.ex
    /\ HasAnchor(story)

\* C14: with the status at {0,0}, a checkAndConsolidate call on a Story that
\* holds narrative text takes the existing-Story path and returns from its
\* status check with the Story file and its tmp sibling unchanged; so do two
\* such calls in a row.
HasNarrative(f) == StripHeaders(ReadContent(f)) # <<>>

EmptyPending == pstatus.tokens = 0 /\ pstatus.messages = 0

C15_EmptyAnswerKeepsStory ==
    [][\A p \in Procs :
          (ps[p].pc = "u_llm" /\ ps'[p] # ps[p])
              => /\ (ps'[p].pc = "u_write" \/ tmp' # tmp \/ story' # story)
                      => (ps'[p].pc = "u_write" /\ ps'[p].out # <<>>)
                 /\ (ps'[p].op # "idle" /\ ps'[p].resp \in {"empty", "nonstring"})
                      => /\ story' = story /\ tmp' = tmp
                         /\ ps'[p].pc \notin {"u_write", "u_compress"}
                         /\ ~ps'[p].ok
                         /\ ps'[p].pc = "u_llm" => ps'[p].cur = ps[p].cur]_vars

C15_Witness ==
    /\ ps["p1"].op = "consolidate"
    /\ ps["p1"].pc = "r_status"
    /\ ps["p1"].resp \in {"empty", "nonstring"}
    /\ HasAnchor(story)
    /\ ~tmp.ex

\* C16: when the answer to the compression prompt has no text, or no string
\* for a text, and the generated story differs from the current one, the
\* uncompressed story goes on to be persisted.
C16_FailedCompressionKeepsText ==
    [][\A p \in Procs :
          (/\ ps[p].pc = "u_compress"
           /\ ps[p].out # ps[p].cur
           /\ ps'[p].op # "idle"
           /\ ps'[p].cresp \in {"empty", "nonstring"})
              => (ps'[p].pc = "u_write" /\ ps'[p].out = ps[p].out)]_vars

\* The words of a Story's narrative, its LAST_PROCESSED comment aside.
NarrativeWords(c) == SumWords(StripHeaders(c))

\* C17: a Story renamed into place has a narrative of at most MAX_STORY_WORDS
\* words, or the call that wrote it had put it through the compression prompt.
C17_WithinLimitOrCompressed ==
    [][\A p \in Procs :
          (/\ ps[p].pc = "u_rename"
           /\ tmp.ex
           /\ story' = tmp
           /\ NarrativeWords(tmp.c) > MAX_STORY_WORDS)
              => ps[p].cresp # ""]_vars

C17_Witness ==
    /\ HasAnchor(story)
    /\ NarrativeWords(story.c) > MAX_STORY_WORDS
    /\ ps["p1"].op = "idle"

\* C17 as stated: the narrative of a complete Story file has at most
\* MAX_STORY_WORDS words.
C17_StoryWithinWordLimit ==
    (story.ex /\ ~story.partial) => NarrativeWords(story.c) <= MAX_STORY_WORDS

\* C18: a complete() call whose primary stream emitted an error event and
\* that made no failover returns the empty text.
C18_ErrorReturnsEmpty ==
    (cg.pc = "done" /\ cg.primaryError /\ cg.fallbacks = 0) => cg.fullText = <<>>

\* C19: a complete() call invokes the fallback model at most once; by its
\* return it has invoked it exactly if the primary stream ended on an error
\* event with no text collected and the provider is github-copilot; and the
\* text the fallback's stream collected is the text returned.
C19_FailoverOnce ==
    /\ cg.fallbacks <= 1
    /\ cg.which = "fallback" => cg.fallbacks = 1
    /\ (cg.pc = "done" /\ ~(cg.threw /\ cg.which = "primary") /\ cg.which # "")
          => (cg.fallbacks = 1
                <=> (cg.primaryError /\ cg.primaryText = <<>>
                        /\ cg.provider = "github-copilot"))
    /\ (cg.pc = "done" /\ cg.which = "fallback" /\ ~cg.threw)
          => cg.fullText = cg.collected

C19_Witness ==
    /\ cg.pc = "done"
    /\ cg.which = "fallback"
    /\ cg.fallbacks = 1
    /\ cg.streamError
    /\ cg.fullText # <<>>

\* C20: no exception escapes a public entry point: under any failure of the
\* graph, the model or the filesystem no call of trackPendingEpisode,
\* resetPendingStatus, checkAndConsolidate or updateNarrativeStory ends with
\* a rejected promise.
C20_NoExceptionEscapes ==
    \A p \in Procs : ps[p].pc # "rejected"

\* C28: a lock file of age NARRATIVE_LOCK_MAX_AGE_MS or more never blocks a
\* caller: the syncGlobalNarrative call that finds it goes on to the
\* acquisition, writes the lock file once, with its own pid and the current
\* time, and proceeds to the scan.
StaleLock == lock.ex /\ now - lock.mtime >= NARRATIVE_LOCK_MAX_AGE_MS

C28_StaleLockReclaimedOnce ==
    [][\A p \in Procs :
          /\ (StaleLock /\ ps[p].op # "global" /\ ps'[p].op = "global")
                => (ps'[p].pc = "g_lock" /\ ~ps'[p].skip)
          /\ (ps'[p].pc = "g_lock" /\ ps[p].pc # "g_lock") => ps[p].op # "global"
          /\ (ps[p].pc = "g_lock" /\ ps'[p] # ps[p] /\ ps'[p].op = "global")
                => (ps'[p].pc = "g_scan" /\ lock' = [ex |-> TRUE, pid |-> p, mtime |-> now])
          /\ (lock'.ex /\ lock' # lock) => \E q \in Procs : ps[q].pc = "g_lock" /\ ps'[q].pc = "g_scan"
      ]_vars

C28_Witness ==
    /\ ps["p1"].op = "global" /\ ps["p1"].stale /\ ps["p1"].pc = "g_scan"
    /\ lock = [ex |-> TRUE, pid |-> "p1", mtime |-> now]

C30_TruncateIdempotent ==
    tr.n = 2 => tr.twice = tr.once

\* C21: getFlashback returns the empty string or a block whose body is not
\* empty: at least one group, and every group with at least one bullet.
C21_BlockHasBody ==
    (fb.pc = "returned" /\ fb.block = "resonance")
        => (fb.body # <<>> /\ \A k \in 1..Len(fb.body) : fb.body[k].bullets # <<>>)

\* C22: a retrieved result whose id was in recentlyRecalled when the call began
\* and that is not boosted is not emitted; a boosted result passes the echo
\* filter whatever the buffer holds.
C22_EchoFilter ==
    fb.pc \in {"rewrite", "returned"}
        => \A r \in SeqSet(fb.input.results) :
              /\ (~r.boosted /\ r.id \in SeqSet(fb.echo0))
                    => (r \notin SeqSet(fb.afterEcho) /\ r.id \notin fb.emitted)
              /\ (r.boosted /\ r \in SeqSet(fb.afterHorizon)) => r \in SeqSet(fb.afterEcho)

C22_Witness ==
    /\ fb.pc = "returned" /\ fb.block = "resonance"
    /\ \E r \in SeqSet(fb.input.results) :
          ~r.boosted /\ r.id \in SeqSet(fb.echo0) /\ r.id \notin fb.emitted
    /\ \E r \in SeqSet(fb.input.results) :
          r.boosted /\ r.id \in SeqSet(fb.echo0) /\ r.id \in fb.emitted

\* C23: a memory that was not boosted and was emitted by the call before is
\* not emitted by this call, unless it is boosted now.
C23_NoRepeatNextCall ==
    fb.pc = "returned"
        => \A r \in SeqSet(fb.input.results) :
              (~r.boosted /\ r.id \in fb.prev) => r.id \notin fb.emitted

\* C24: recentlyRecalled holds only ids of memories that appeared in a
\* returned block.
C24_BufferHoldsOnlyShown ==
    fb.pc = "returned" => SeqSet(recentlyRecalled) \subseteq fb.shown

\* C25: recentlyRecalled never holds more than maxEchoFilterSize ids; a call
\* appends the surviving ids that are not yet in it, leaves those already
\* there where they are, and when that is too many drops the oldest.
InsertionOrder(old, filtered) ==
    old \o SelectSeq([i \in 1..Len(filtered) |-> filtered[i].id],
                     LAMBDA id : id \notin SeqSet(old))

IsSuffix(s, t) ==
    /\ Len(s) <= Len(t)
    /\ s = SubSeq(t, Len(t) - Len(s) + 1, Len(t))

C25_BufferBoundedFifo ==
    [][recentlyRecalled' # recentlyRecalled \/ fb.pc = "found"
          => LET all == InsertionOrder(recentlyRecalled, fb'.afterEcho)
             IN  /\ Len(recentlyRecalled') <= maxEchoFilterSize
                 /\ IsSuffix(recentlyRecalled', all)
                 /\ Len(all) <= maxEchoFilterSize => recentlyRecalled' = all
                 /\ Len(all) > maxEchoFilterSize => Len(recentlyRecalled') = maxEchoFilterSize
                 /\ (\A i \in 1..Len(fb'.afterEcho) : fb'.afterEcho[i].id \in SeqSet(recentlyRecalled))
                       => recentlyRecalled' = recentlyRecalled
      ]_vars

C25_Witness ==
    /\ fb.pc = "returned" /\ fb.calls = 2
    /\ fb.echo0 # <<>> /\ Len(fb.echo0) < maxEchoFilterSize
    /\ Len(recentlyRecalled) = maxEchoFilterSize
    /\ Head(fb.echo0) \notin SeqSet(recentlyRecalled)
    /\ Last(fb.echo0) \in SeqSet(recentlyRecalled)

\* C26: with oldestContextTimestamp given, no memory whose effective timestamp
\* parses and is not before it passes the horizon or is emitted; a memory whose
\* effective timestamp is missing or does not parse passes the horizon.
C26_HorizonRespected ==
    (fb.pc \in {"rewrite", "returned"} /\ fb.input.horizon # NoHorizon)
        => \A r \in SeqSet(fb.input.results) :
              LET t == IF r.dateTag # Missing THEN r.dateTag
                       ELSE IF r.stampTag # Missing THEN r.stampTag ELSE r.ts
              IN  /\ (t \notin {Missing, Unparseable} /\ t >= fb.input.horizon)
                        => (r \notin SeqSet(fb.afterHorizon) /\ r.id \notin fb.emitted)
                  /\ t \in {Missing, Unparseable} => r \in SeqSet(fb.afterHorizon)

C26_Witness ==
    /\ fb.pc = "returned" /\ fb.input.horizon = ContextStart
    /\ fb.input.results # <<>>
    /\ fb.input.results[1].dateTag = Missing
    /\ fb.input.results[1].stampTag = ContextStart
    /\ fb.input.results[1].ts = ContextStart - 1
    /\ fb.afterHorizon = <<>> /\ fb.block = ""

\* C27: at most MaxTotalSelected memories are accepted, and no group of the
\* block has more than five bullets.
C27_CapsRespected ==
    fb.pc = "returned"
        => /\ Len(fb.accepted) <= MaxTotalSelected
           /\ \A k \in 1..Len(fb.body) : Len(fb.body[k].bullets) <= 5

C32_GraphFallbackOrDefer ==
    [][\A p \in {"p1"} :
          (ps[p].pc = "k_log" /\ ~plog.ex /\ ps'[p] # ps[p])
              => \/ /\ ps'[p].pc = "u_llm" /\ ps'[p].ret = "k_reset"
                    /\ ps'[p].batch # <<>>
                    /\ \A i \in 1..Len(ps'[p].batch) : ~isHeartbeatMessage(ps'[p].batch[i].text)
                    /\ ps'[p].anchor = ps[p].latestTs
                 \/ /\ ps'[p] = Idle
                    /\ UNCHANGED <<story, tmp, pstatus, plog, narrated>>
      ]_vars

C32_Witness ==
    /\ ps["p1"].op = "consolidate" /\ ps["p1"].pc = "u_llm" /\ ps["p1"].ret = "k_reset"
    /\ ~plog.ex /\ pstatus.tokens >= TokenThreshold
    /\ ps["p1"].batch # <<>>

\* C39: the reset at the end of checkAndConsolidate deletes from the pending
\* log only entries that were in the transcript passed to updateNarrativeStory.
C39_NoEntryDeletedUnread ==
    [][\A p \in {"p1"} :
          (ps[p].op = "consolidate" /\ ps[p].pc = "r_unlink" /\ ps'[p] # ps[p])
              => \A i \in 1..Len(plog.entries) :
                    \/ plog.entries[i] \in SeqSet(ps[p].batch)
                    \/ plog.entries[i] \in SeqSet(plog'.entries)
      ]_vars


\* C33: every batch the cold-start bootstrap hands to updateNarrativeStory is
\* a non-empty group of consecutive historical files.
C33_BootstrapBatchesNonEmpty ==
    \A p \in Procs :
        (ps[p].op = "consolidate" /\ ps[p].pc = "u_llm" /\ ps[p].ret \in {"b_loop", "b_final"})
            => ps[p].batch # <<>>


\* C34: the batches of one syncGlobalNarrative run are consecutive non-empty
\* slices of the chronologically sorted list of exactly the messages that are
\* newer than the anchor read at the start and are no heartbeat; a batch above
\* safeTokenLimit holds a single message, and the run ends with nothing left.
C34_GlobalSyncBatches ==
    [][\A p \in {"p1"} :
          /\ (ps[p].pc = "g_scan" /\ ps'[p].pc = "g_read")
                => LET want == {m \in sessions : /\ m.ts > ParseAnchor(ReadContent(story))
                                                 /\ ~isHeartbeatMessage(m.text)}
                       t == ps'[p].todo
                   IN  /\ SeqSet(t) = want
                       /\ Len(t) = Cardinality(want)
                       /\ \A i \in 1..(Len(t) - 1) : t[i].ts < t[i + 1].ts
          /\ (ps'[p].op = "global" /\ ps'[p].pc = "u_llm" /\ ps'[p] # ps[p])
                => /\ ps'[p].batch # <<>>
                   /\ ps'[p].arr
                   /\ ps'[p].batch \o ps'[p].todo = ps[p].todo
                   /\ SumTok(ps'[p].batch) <= SafeTokenLimit \/ Len(ps'[p].batch) = 1
                   /\ (ps'[p].ret = "g_final") <=> (ps'[p].todo = <<>>)
          /\ (ps[p].op = "global" /\ ps[p].pc # "g_scan" /\ ps[p].pc # "g_finally"
                /\ ps'[p].pc = "g_finally")
                => ps[p].todo = <<>>
      ]_vars

\* The second of two batches is about to start: the first one is with the model.
C34_Witness ==
    /\ ps["p1"].op = "global" /\ ps["p1"].pc = "u_llm" /\ ps["p1"].ret = "g_loop"
    /\ Len(ps["p1"].batch) = 1 /\ Len(ps["p1"].todo) = 1
    /\ SumTok(ps["p1"].batch) + SumTok(ps["p1"].todo) > SafeTokenLimit


\* C35: with a current-session path passed by the runner, no message of that
\* session file is in a batch the global sync narrates.
C35_CurrentSessionExcluded ==
    \A p \in Procs :
        (ps[p].op = "global" /\ ps[p].turn.on /\ ps[p].pc = "u_llm")
            => SeqSet(ps[p].batch) \cap ps[p].turn.sessionFile = {}

\* C36: a historical file that cannot be read or queued is skipped, and the
\* ingest goes on with the file after it.
C36_FailingFileOnlySkipped ==
    [][\A p \in {"p1"} :
          (ps[p].pc = "bh_file" /\ ps[p].todo # <<>> /\ ps'[p] # ps[p])
              => ps'[p].pc = "bh_file" /\ ps'[p].todo = Tail(ps[p].todo)
      ]_vars

\* C37: when a turn runs its flashback search, the prompt of the turn has not
\* been added to the graph yet.
C37_SearchBeforePromptIngest ==
    [][\A p \in {"p1"} :
          (ps[p].pc = "tn_search" /\ ps'[p].turn.searched) => ~ps[p].turn.stored
      ]_vars

C38_RelativeTimeLabels ==
    rel.n = 1 =>
        LET diffDays == rel.diffSec \div SecondsPerDay
        IN  /\ (diffDays \div 30 = 11) => rel.label.form = "almost a year ago"
            /\ rel.label.form \in {"N years ago", "N years ago or so"} => rel.label.n \in 2..4
            /\ rel.label.n # 0

====
